---- MODULE Spec2Model ----
(***************************************************************************)
(* Model of rust/src/asn1/parse_rules.rs: the parser of the asn1 keyword   *)
(* options (asn1_parse_rule), the number parsers it uses, and the C        *)
(* boundary (rs_detect_asn1_parse / rs_detect_asn1_free).                  *)
(*                                                                         *)
(* Text is a sequence of one-character strings (one per byte of the C     *)
(* buffer); the three tokens "xC3", "xA9" and "xFF" stand for the bytes    *)
(* 0xC3, 0xA9 and 0xFF, so that the UTF-8 check of CStr::to_str has        *)
(* something to reject.                                                    *)
(*                                                                         *)
(* Option<T> is a sequence of length 0 (None) or 1 (Some(v)).              *)
(* A u32 is the pair <<hi, lo>> of its 16-bit halves (value hi*2^16+lo):   *)
(* TLC's integers are 32-bit signed and cannot hold 4294967295.            *)
(* An i32 and a u16 are plain integers.                                    *)
(***************************************************************************)
EXTENDS Integers, Sequences, FiniteSets, TLC

\* ------------------------------------------------------------------------
\* Bounds of the model
\* ------------------------------------------------------------------------

\* Longest list of arbitrary items (well-formed or not, any joint) in an input.
MaxItems == 2

\* Longest list of well-formed clauses joined by valid separators in an input.
MaxClauses == 2

\* ------------------------------------------------------------------------
\* Program constants
\* ------------------------------------------------------------------------

ASN1_DEFAULT_MAX_FRAMES == 30

KwBitstringOverflow == <<"b","i","t","s","t","r","i","n","g","_","o","v","e","r","f","l","o","w">>
KwDoubleOverflow == <<"d","o","u","b","l","e","_","o","v","e","r","f","l","o","w">>
KwOversizeLength == <<"o","v","e","r","s","i","z","e","_","l","e","n","g","t","h">>
KwAbsoluteOffset == <<"a","b","s","o","l","u","t","e","_","o","f","f","s","e","t">>
KwRelativeOffset == <<"r","e","l","a","t","i","v","e","_","o","f","f","s","e","t">>

\* ------------------------------------------------------------------------
\* Values
\* ------------------------------------------------------------------------

None == << >>
Some(v) == <<v>>

\* The u32 with value n, for 0 <= n < 2^31.
U32(n) == <<n \div 65536, n % 65536>>

\* DetectAsn1Data::default()
DefaultData ==
    [ bitstring_overflow |-> FALSE,
      double_overflow    |-> FALSE,
      oversize_length    |-> None,
      absolute_offset    |-> None,
      relative_offset    |-> None,
      max_frames         |-> ASN1_DEFAULT_MAX_FRAMES ]

\* ------------------------------------------------------------------------
\* Text helpers
\* ------------------------------------------------------------------------

Take(s, n) == SubSeq(s, 1, n)
Drop(s, n) == SubSeq(s, n + 1, Len(s))

\* Length of the longest prefix of s whose characters are all in set, given
\* that the first n are.
RECURSIVE SpanFrom(_, _, _)
SpanFrom(s, set, n) ==
    IF n < Len(s) /\ s[n + 1] \in set THEN SpanFrom(s, set, n + 1) ELSE n

\* Length of the longest prefix of s whose characters are all in set.
SpanLen(s, set) == SpanFrom(s, set, 0)

IsPrefix(p, s) == Len(p) <= Len(s) /\ Take(s, Len(p)) = p
IsSuffix(p, s) == Len(p) <= Len(s) /\ Drop(s, Len(s) - Len(p)) = p

\* char::is_ascii_digit
Digits == {"0","1","2","3","4","5","6","7","8","9"}
DigitVal(c) ==
    CASE c = "0" -> 0 [] c = "1" -> 1 [] c = "2" -> 2 [] c = "3" -> 3
      [] c = "4" -> 4 [] c = "5" -> 5 [] c = "6" -> 6 [] c = "7" -> 7
      [] c = "8" -> 8 [] c = "9" -> 9

\* The characters nom's multispace0/multispace1 accept.
WhiteSpace == {" ", "\t", "\r", "\n"}

\* ------------------------------------------------------------------------
\* str::parse for the integer types (checked multiply by 10, checked add)
\* ------------------------------------------------------------------------

\* The buggy variant: wraps modulo 2^32 instead of failing.
U32StepWrapping(acc, d) ==
    LET lo10 == acc[2] * 10 + d
        hi10 == acc[1] * 10 + (lo10 \div 65536)
    IN  Some(<<hi10 % 65536, lo10 % 65536>>)

\* acc * 10 + d in u32, None on overflow.
U32Step(acc, d) ==
    LET lo10 == acc[2] * 10 + d
        hi10 == acc[1] * 10 + (lo10 \div 65536)
    IN  IF hi10 >= 65536 THEN None ELSE Some(<<hi10, lo10 % 65536>>)

RECURSIVE U32Fold(_, _)
U32Fold(digits, acc) ==
    IF digits = << >> THEN Some(acc)
    ELSE LET nxt == U32Step(acc, DigitVal(Head(digits)))
         IN  IF nxt = None THEN None ELSE U32Fold(Tail(digits), nxt[1])

\* digits.parse::<u32>() for a non-empty string of ASCII digits.
StrParseU32(digits) == U32Fold(digits, <<0, 0>>)

\* acc * 10 + d in i32, None on overflow.
I32Step(acc, d) ==
    IF acc > 214748364 \/ (acc = 214748364 /\ d > 7) THEN None
    ELSE Some(acc * 10 + d)

RECURSIVE I32Fold(_, _)
I32Fold(digits, acc) ==
    IF digits = << >> THEN Some(acc)
    ELSE LET nxt == I32Step(acc, DigitVal(Head(digits)))
         IN  IF nxt = None THEN None ELSE I32Fold(Tail(digits), nxt[1])

\* s.parse::<i32>() for a non-empty string of ASCII digits (no sign: the
\* caller has already taken the '-').
StrParseI32(digits) == I32Fold(digits, 0)

\* acc * 10 + d in u16, None on overflow.
U16Step(acc, d) ==
    IF acc * 10 + d > 65535 THEN None ELSE Some(acc * 10 + d)

RECURSIVE U16Fold(_, _)
U16Fold(digits, acc) ==
    IF digits = << >> THEN Some(acc)
    ELSE IF Head(digits) \notin Digits THEN None
    ELSE LET nxt == U16Step(acc, DigitVal(Head(digits)))
         IN  IF nxt = None THEN None ELSE U16Fold(Tail(digits), nxt[1])

\* max_frames.parse::<u16>(): an optional leading '+', then one or more
\* digits; anything else, or a value above 65535, is an error.
StrParseU16(s) ==
    LET body == IF s # << >> /\ Head(s) = "+" THEN Tail(s) ELSE s
    IN  IF body = << >> THEN None ELSE U16Fold(body, 0)

\* ------------------------------------------------------------------------
\* nom combinators.  An IResult is [ok, rest, out]: on Ok the remaining
\* input and the output, on Err(Error) the input the failing parser was
\* given.  A parser is an operator from the input to an IResult.
\* ------------------------------------------------------------------------

Ok(rest, out) == [ok |-> TRUE, rest |-> rest, out |-> out]
Err(i) == [ok |-> FALSE, rest |-> i, out |-> None]

tag(t, i) == IF IsPrefix(t, i) THEN Ok(Drop(i, Len(t)), t) ELSE Err(i)

multispace0(i) ==
    LET n == SpanLen(i, WhiteSpace) IN Ok(Drop(i, n), Take(i, n))

multispace1(i) ==
    LET n == SpanLen(i, WhiteSpace)
    IN  IF n = 0 THEN Err(i) ELSE Ok(Drop(i, n), Take(i, n))

digit1(i) ==
    LET n == SpanLen(i, Digits)
    IN  IF n = 0 THEN Err(i) ELSE Ok(Drop(i, n), Take(i, n))

\* opt(p)(i): an Error of p becomes Ok(None) with nothing consumed.
opt(P(_), i) ==
    LET r == P(i)
    IN  IF r.ok THEN Ok(r.rest, Some(r.out)) ELSE Ok(i, None)

\* map_res(p, f)(i): p, then f on its output; an Err of f is an Error at i.
map_res(P(_), F(_), i) ==
    LET r == P(i)
    IN  IF ~r.ok THEN r
        ELSE LET v == F(r.out)
             IN  IF v = None THEN Err(i) ELSE Ok(r.rest, v[1])

\* separated_pair(first, sep, second)(i): the outputs of first and second.
separated_pair(First(_), Sep(_), Second(_), i) ==
    LET a == First(i)
    IN  IF ~a.ok THEN a
        ELSE LET s == Sep(a.rest)
             IN  IF ~s.ok THEN s
                 ELSE LET b == Second(s.rest)
                      IN  IF ~b.ok THEN b ELSE Ok(b.rest, <<a.out, b.out>>)

\* alt((p, q))(i): p, and q where p fails.
alt(P(_), Q(_), i) ==
    LET r == P(i) IN IF r.ok THEN r ELSE Q(i)

\* tuple((p0, ..., p6))(i): each parser where the one before it stopped; the
\* first Error ends it.  The output is the tuple of the seven outputs.
tuple(P0(_), P1(_), P2(_), P3(_), P4(_), P5(_), P6(_), i) ==
    LET r0 == P0(i)
    IN  IF ~r0.ok THEN r0 ELSE
    LET r1 == P1(r0.rest)
    IN  IF ~r1.ok THEN r1 ELSE
    LET r2 == P2(r1.rest)
    IN  IF ~r2.ok THEN r2 ELSE
    LET r3 == P3(r2.rest)
    IN  IF ~r3.ok THEN r3 ELSE
    LET r4 == P4(r3.rest)
    IN  IF ~r4.ok THEN r4 ELSE
    LET r5 == P5(r4.rest)
    IN  IF ~r5.ok THEN r5 ELSE
    LET r6 == P6(r5.rest)
    IN  IF ~r6.ok THEN r6 ELSE
        Ok(r6.rest, <<r0.out, r1.out, r2.out, r3.out, r4.out, r5.out, r6.out>>)

\* ------------------------------------------------------------------------
\* The number parsers
\* ------------------------------------------------------------------------

parse_u32_number(input) == map_res(digit1, StrParseU32, input)

TagMinus(i) == tag(<<"-">>, i)

parse_i32_number(input) ==
    LET negate == opt(TagMinus, input)
        r      == map_res(digit1, StrParseI32, negate.rest)
    IN  IF ~r.ok THEN r
        ELSE Ok(r.rest, r.out * (IF negate.out # None THEN -1 ELSE 1))

\* ------------------------------------------------------------------------
\* The five clause matchers (the nested functions of asn1_parse_rule)
\* ------------------------------------------------------------------------

bitstring_overflow(i) == tag(KwBitstringOverflow, i)

double_overflow(i) == tag(KwDoubleOverflow, i)

TagOversizeLength(i) == tag(KwOversizeLength, i)
TagAbsoluteOffset(i) == tag(KwAbsoluteOffset, i)
TagRelativeOffset(i) == tag(KwRelativeOffset, i)

oversize_length(i) ==
    separated_pair(TagOversizeLength, multispace1, parse_u32_number, i)

absolute_offset(i) ==
    separated_pair(TagAbsoluteOffset, multispace1, parse_u32_number, i)

relative_offset(i) ==
    separated_pair(TagRelativeOffset, multispace1, parse_i32_number, i)

TagComma(i) == tag(<<",">>, i)

\* The buggy variant: a comma is not a separator.
SeparatorSpaceOnly(i) == multispace1(i)

\* alt((multispace1, tag(",")))
Separator(i) == alt(multispace1, TagComma, i)

\* ------------------------------------------------------------------------
\* One iteration of the parse loop
\* ------------------------------------------------------------------------

OptMultispace0(i) == opt(multispace0, i)
OptBitstringOverflow(i) == opt(bitstring_overflow, i)
OptDoubleOverflow(i) == opt(double_overflow, i)
OptOversizeLength(i) == opt(oversize_length, i)
OptAbsoluteOffset(i) == opt(absolute_offset, i)
OptRelativeOffset(i) == opt(relative_offset, i)
OptSeparator(i) == opt(Separator, i)

\* The fields of the pattern the tuple's output is bound to.
BindTuple(r) ==
    [ new_rest           |-> r.rest,
      bitstring_overflow |-> r.out[2],
      double_overflow    |-> r.out[3],
      oversize_length    |-> r.out[4],
      absolute_offset    |-> r.out[5],
      relative_offset    |-> r.out[6] ]

\* tuple((opt(multispace0), opt(bitstring_overflow), opt(double_overflow),
\*        opt(oversize_length), opt(absolute_offset), opt(relative_offset),
\*        opt(alt((multispace1, tag(","))))))(rest)?
\* Every member is optional, so the tuple never fails: each of the five
\* matchers is tried where the one before it stopped, whether or not an
\* earlier one has matched.
ClauseTuple(rest) ==
    BindTuple(tuple(OptMultispace0, OptBitstringOverflow, OptDoubleOverflow,
                    OptOversizeLength, OptAbsoluteOffset, OptRelativeOffset,
                    OptSeparator, rest))

\* What the if / else-if chain can see of the tuple: is_some() of the two
\* flags, and the Option of the argument v of each numeric clause.
Bound(t) ==
    [ bitstring_overflow |-> IF t.bitstring_overflow # None THEN Some(TRUE) ELSE None,
      double_overflow    |-> IF t.double_overflow # None THEN Some(TRUE) ELSE None,
      oversize_length    |-> IF t.oversize_length # None
                             THEN Some(t.oversize_length[1][2]) ELSE None,
      absolute_offset    |-> IF t.absolute_offset # None
                             THEN Some(t.absolute_offset[1][2]) ELSE None,
      relative_offset    |-> IF t.relative_offset # None
                             THEN Some(t.relative_offset[1][2]) ELSE None ]

\* The buggy variant: a numeric clause rebuilds the value from the default
\* instead of updating the accumulator.
ApplyClauseFromDefault(data, t) ==
    IF t.bitstring_overflow # None THEN
        Some([data EXCEPT !.bitstring_overflow = TRUE])
    ELSE IF t.double_overflow # None THEN
        Some([data EXCEPT !.double_overflow = TRUE])
    ELSE IF t.oversize_length # None THEN
        Some([DefaultData EXCEPT !.oversize_length = Some(t.oversize_length[1][2])])
    ELSE IF t.absolute_offset # None THEN
        Some([DefaultData EXCEPT !.absolute_offset = Some(t.absolute_offset[1][2])])
    ELSE IF t.relative_offset # None THEN
        Some([DefaultData EXCEPT !.relative_offset = Some(t.relative_offset[1][2])])
    ELSE None

\* The if / else-if chain after the tuple: the first of the five Options that
\* is Some sets its field; None when all five are None (the Verify error).
ApplyClause(data, t) ==
    IF t.bitstring_overflow # None THEN
        Some([data EXCEPT !.bitstring_overflow = TRUE])
    ELSE IF t.double_overflow # None THEN
        Some([data EXCEPT !.double_overflow = TRUE])
    ELSE IF t.oversize_length # None THEN
        Some([data EXCEPT !.oversize_length = Some(t.oversize_length[1][2])])
    ELSE IF t.absolute_offset # None THEN
        Some([data EXCEPT !.absolute_offset = Some(t.absolute_offset[1][2])])
    ELSE IF t.relative_offset # None THEN
        Some([data EXCEPT !.relative_offset = Some(t.relative_offset[1][2])])
    ELSE None

\* The buggy variant: the error reports what the tuple left, not what the
\* iteration started with.
VerifyErrorAfterTuple(rest, new_rest) == [kind |-> "Verify", input |-> new_rest]

\* make_error(rest, ErrorKind::Verify)
VerifyError(rest, new_rest) == [kind |-> "Verify", input |-> rest]

\* make_error(input, ErrorKind::Eof)
EofError(input) == [kind |-> "Eof", input |-> input]

\* The buggy variant: the empty input is not rejected.
IsEmptyNever(input) == FALSE

\* input.is_empty()
IsEmpty(input) == input = << >>

\* ------------------------------------------------------------------------
\* asn1_parse_rule as a function of its input: Ok((rest, data)) is
\* [ok |-> TRUE, rest, data], Err is [ok |-> FALSE, err].
\* ------------------------------------------------------------------------

RECURSIVE ParseLoop(_, _)
ParseLoop(rest, data) ==
    IF rest = << >> THEN [ok |-> TRUE, rest |-> rest, data |-> data]
    ELSE LET t == ClauseTuple(rest)
             d == ApplyClause(data, t)
         IN  IF d = None
             THEN [ok |-> FALSE, err |-> VerifyError(rest, t.new_rest)]
             ELSE ParseLoop(t.new_rest, d[1])

asn1_parse_rule(input) ==
    IF IsEmpty(input) THEN [ok |-> FALSE, err |-> EofError(input)]
    ELSE ParseLoop(input, DefaultData)

\* ------------------------------------------------------------------------
\* rs_detect_asn1_parse: the pieces of the boundary
\* ------------------------------------------------------------------------

\* The bytes of the model that are not ASCII.
NonAscii == {"xC3", "xA9", "xFF"}

\* CStr::to_str succeeds: ASCII bytes, and the two-byte sequence 0xC3 0xA9;
\* a lone lead byte, a lone continuation byte and 0xFF are invalid.
RECURSIVE IsValidUtf8(_)
IsValidUtf8(bytes) ==
    IF bytes = << >> THEN TRUE
    ELSE IF Head(bytes) \notin NonAscii THEN IsValidUtf8(Tail(bytes))
    ELSE IF Head(bytes) = "xC3"
         THEN Len(bytes) >= 2 /\ bytes[2] = "xA9" /\ IsValidUtf8(Drop(bytes, 2))
    ELSE FALSE

\* The buggy variant: the configured value is taken when it does not parse
\* (as 0).
OverrideMaxFramesUnchecked(data, conf_get) ==
    IF conf_get = None THEN data
    ELSE LET v == StrParseU16(conf_get[1])
         IN  IF v # None THEN [data EXCEPT !.max_frames = v[1]]
             ELSE [data EXCEPT !.max_frames = 0]

\* if let Some(max_frames) = conf_get("asn1-max-frames") {
\*     if let Ok(v) = max_frames.parse::<u16>() { data.max_frames = v } }
OverrideMaxFrames(data, conf_get) ==
    IF conf_get = None THEN data
    ELSE LET v == StrParseU16(conf_get[1])
         IN  IF v # None THEN [data EXCEPT !.max_frames = v[1]] ELSE data

\* The buggy variant: the accumulator is handed out on an error.
ErrHandlePartial(data) == Some(data)

\* Err(_) => std::ptr::null_mut()
ErrHandle(data) == None

\* ------------------------------------------------------------------------
\* Inputs.  gen names the pieces an input buffer is put together from, the
\* operators below give their text.
\* ------------------------------------------------------------------------

Sp == <<" ">>
Comma == <<",">>
NewlineTab == <<"\n", "\t">>

D0 == <<"0">>
D7 == <<"7">>
D10 == <<"1","0">>
D360 == <<"3","6","0">>
D1024 == <<"1","0","2","4">>
DI32Max == <<"2","1","4","7","4","8","3","6","4","7">>
DI32MaxPlus1 == <<"2","1","4","7","4","8","3","6","4","8">>
DU32Max == <<"4","2","9","4","9","6","7","2","9","5">>
DU32MaxPlus1 == <<"4","2","9","4","9","6","7","2","9","6">>
DLong == <<"9","9","9","9","9","9","9","9","9","9","9">>
DPadded == <<"0","0","0","0","0","0","0","0","0","0","1","0">>

KwOther == <<"s","o","m","e","_","o","t","h","e","r","_","p","a","r","a","m">>

ClBitstring == KwBitstringOverflow
ClDouble == KwDoubleOverflow
ClOversize1024 == KwOversizeLength \o Sp \o D1024
ClOversize7 == KwOversizeLength \o Sp \o D7
ClAbsolute10 == KwAbsoluteOffset \o Sp \o D10
ClAbsolute1024 == KwAbsoluteOffset \o Sp \o D1024
ClRelativeMinus7 == KwRelativeOffset \o Sp \o <<"-">> \o D7
ClRelative10 == KwRelativeOffset \o Sp \o D10
ClRelative1024 == KwRelativeOffset \o Sp \o D1024

\* One well-formed clause per keyword.
WellFormedClauses ==
    { "bitstring_overflow", "double_overflow", "oversize_length 1024",
      "absolute_offset 10", "relative_offset -7" }

\* Well-formed clauses, a repeated keyword with another argument, a keyword
\* without its argument, an unknown keyword, and nothing.
Items ==
    WellFormedClauses \cup
    { "oversize_length 7", "absolute_offset", "some_other_param 360", "" }

ItemText(name) ==
    CASE name = "bitstring_overflow" -> ClBitstring
      [] name = "double_overflow" -> ClDouble
      [] name = "oversize_length 1024" -> ClOversize1024
      [] name = "absolute_offset 10" -> ClAbsolute10
      [] name = "relative_offset -7" -> ClRelativeMinus7
      [] name = "oversize_length 7" -> ClOversize7
      [] name = "absolute_offset" -> KwAbsoluteOffset
      [] name = "some_other_param 360" -> KwOther \o Sp \o D360
      [] name = "" -> << >>

\* The separators between two clauses: a space, a comma, a comma and a
\* space, a newline and a tab.
ValidSeparators == {" ", ",", ", ", "\n\t"}

\* What may follow an item: nothing (the next item abuts), a space, a comma.
Joints == {"", " ", ","}

JointText(name) ==
    CASE name = "" -> << >>
      [] name = " " -> Sp
      [] name = "," -> Comma
      [] name = ", " -> Comma \o Sp
      [] name = "\n\t" -> NewlineTab
      [] name = "\n\t " -> NewlineTab \o Sp

RECURSIVE JoinFrom(_, _, _)
JoinFrom(items, joints, k) ==
    IF k > Len(items) THEN << >>
    ELSE ItemText(items[k])
         \o (IF k <= Len(joints) THEN JointText(joints[k]) ELSE << >>)
         \o JoinFrom(items, joints, k + 1)

\* lead, items[1], joints[1], items[2], ...: a list of joints shorter than
\* the items leaves the last joints empty.
Join(lead, items, joints) == JointText(lead) \o JoinFrom(items, joints, 1)

\* Arbitrary items with arbitrary joints, a joint after the last item too.
GenItems ==
    UNION { { [fam |-> "items", lead |-> "", items |-> it, joints |-> jt] :
                it \in [1..n -> Items], jt \in [1..n -> Joints] } :
            n \in 0..MaxItems }

\* One or more well-formed clauses, a valid separator between each two,
\* with or without leading whitespace.
GenClauses ==
    UNION { { [fam |-> "clauses", lead |-> ld, items |-> it, joints |-> jt] :
                ld \in {"", "\n\t "},
                it \in [1..n -> WellFormedClauses],
                jt \in [1..(n - 1) -> ValidSeparators] } :
            n \in 1..MaxClauses }

\* The five clauses, once each, in the order the matchers are tried in.
AllClauses ==
    << "bitstring_overflow", "double_overflow", "oversize_length 1024",
       "absolute_offset 10", "relative_offset -7" >>

\* The five clauses with any valid separator between each two.
GenAllClauses ==
    { [fam |-> "clauses", lead |-> ld, items |-> AllClauses, joints |-> jt] :
        ld \in {"", "\n\t "},
        jt \in [1..(Len(AllClauses) - 1) -> ValidSeparators] }

\* Arguments at the edges of the integer ranges.
NumberDigits ==
    { "0", "10", "2147483647", "2147483648", "4294967295", "4294967296",
      "99999999999", "000000000010" }

DigitsText(name) ==
    CASE name = "0" -> D0
      [] name = "10" -> D10
      [] name = "2147483647" -> DI32Max
      [] name = "2147483648" -> DI32MaxPlus1
      [] name = "4294967295" -> DU32Max
      [] name = "4294967296" -> DU32MaxPlus1
      [] name = "99999999999" -> DLong
      [] name = "000000000010" -> DPadded

KeywordText(name) ==
    CASE name = "oversize_length" -> KwOversizeLength
      [] name = "absolute_offset" -> KwAbsoluteOffset
      [] name = "relative_offset" -> KwRelativeOffset

\* The numeric clause of a "number" input.
NumberClause(g) ==
    KeywordText(g.kw) \o Sp \o (IF g.neg THEN <<"-">> ELSE << >>)
        \o DigitsText(g.digits)

\* A numeric clause with an argument at the edges of the integer ranges:
\* alone or after a flag clause, with or without leading whitespace, the
\* flag followed by a valid separator or by nothing or by more whitespace.
NumberJoints == ValidSeparators \cup {"", "\n\t "}

GenNumbers ==
    { [fam |-> "number", lead |-> ld, items |-> pre,
       joints |-> [k \in 1..Len(pre) |-> jt],
       kw |-> kw, neg |-> neg, digits |-> dg] :
        ld \in {"", " "},
        pre \in {<< >>, <<"bitstring_overflow">>, <<"double_overflow">>},
        jt \in NumberJoints,
        kw \in {"oversize_length", "absolute_offset", "relative_offset"},
        neg \in BOOLEAN,
        dg \in NumberDigits }

\* The inputs of test_asn1_parse_rule.
TestInputs ==
    << ClOversize1024, KwOversizeLength,
       ClAbsolute1024, KwAbsoluteOffset,
       ClRelative1024, KwRelativeOffset,
       ClBitstring, ClDouble,
       ClOversize1024 \o Comma \o Sp \o ClRelative10,
       ClOversize1024 \o Sp \o ClAbsolute10,
       ClOversize1024 \o Sp \o ClAbsolute10 \o Comma \o Sp \o ClBitstring,
       ClDouble \o Comma \o Sp \o ClOversize1024 \o Sp \o ClAbsolute10
           \o Comma \o <<"\n", " ">> \o ClBitstring,
       <<"\n", "\t", " ">> \o ClDouble \o Comma \o Sp \o ClOversize1024 \o Sp
           \o ClRelative10 \o Comma \o <<"\n", " ">> \o ClBitstring,
       << >>,
       ClOversize1024 \o Comma \o Sp \o KwOther \o Sp \o D360,
       ClOversize1024 \o Comma \o Comma,
       KwBitstringOverflow \o KwAbsoluteOffset >>

GenTests == { [fam |-> "test", n |-> k] : k \in 1..Len(TestInputs) }

\* Buffers with bytes that are not ASCII: valid UTF-8 and not.
RawInputs ==
    << <<"xFF">>, ClBitstring \o <<"xFF">>, <<"xC3">>, <<"xA9">>,
       <<"xC3", "xA9">>, ClBitstring \o Sp \o <<"xC3", "xA9">> >>

GenRaw == { [fam |-> "raw", n |-> k] : k \in 1..Len(RawInputs) }

Gens ==
    GenItems \cup GenClauses \cup GenAllClauses \cup GenNumbers
        \cup GenTests \cup GenRaw

\* The bytes of the buffer gen describes.
InputOf(g) ==
    CASE g.fam = "test" -> TestInputs[g.n]
      [] g.fam = "raw" -> RawInputs[g.n]
      [] g.fam = "number" -> Join(g.lead, g.items, g.joints) \o NumberClause(g)
      [] OTHER -> Join(g.lead, g.items, g.joints)

\* What conf_get("asn1-max-frames") may return.
ConfValues ==
    { None, Some(<<"1","0","0">>), Some(<<"6","5","5","3","5">>),
      Some(<<"6","5","5","3","6">>), Some(<<"a","b","c">>) }

\* ------------------------------------------------------------------------
\* State
\* ------------------------------------------------------------------------

VARIABLES
    gen,        \* how the input buffer was put together
    ptr,        \* "null" or "buf": the pointer given to rs_detect_asn1_parse
    input,      \* the bytes of the buffer before its NUL
    pc,         \* "call", "loop", "returned", "freed"
    rest,       \* asn1_parse_rule: the unconsumed input
    data,       \* asn1_parse_rule: the accumulator
    hist,       \* the tuples bound by the iterations so far
    err,        \* None, or Some(error) returned by asn1_parse_rule
    conf,       \* None, or Some(what conf_get returned)
    handle,     \* the pointer returned: None (null) or Some(data)
    allocated   \* whether a DetectAsn1Data box is live

vars == <<gen, ptr, input, pc, rest, data, hist, err, conf, handle, allocated>>

Init ==
    /\ \/ /\ gen \in Gens
          /\ ptr = "buf"
          /\ input = InputOf(gen)
       \/ /\ gen = [fam |-> "null"]
          /\ ptr = "null"
          /\ input = << >>
    /\ pc = "call"
    /\ rest = << >>
    /\ data = DefaultData
    /\ hist = << >>
    /\ err = None
    /\ conf = None
    /\ handle = None
    /\ allocated = FALSE

\* if input.is_null() { return std::ptr::null_mut(); }
ReturnNullInput ==
    /\ pc = "call"
    /\ ptr = "null"
    /\ pc' = "returned"
    /\ handle' = None
    /\ UNCHANGED <<gen, ptr, input, rest, data, hist, err, conf, allocated>>

\* CStr::from_ptr(input).to_str() is an error: return null.
ReturnInvalidEncoding ==
    /\ pc = "call"
    /\ ptr = "buf"
    /\ ~IsValidUtf8(input)
    /\ pc' = "returned"
    /\ handle' = None
    /\ UNCHANGED <<gen, ptr, input, rest, data, hist, err, conf, allocated>>

\* asn1_parse_rule on the empty input: Err(Eof), and the caller returns null.
RejectEmpty ==
    /\ pc = "call"
    /\ ptr = "buf"
    /\ IsValidUtf8(input)
    /\ IsEmpty(input)
    /\ err' = Some(EofError(input))
    /\ pc' = "returned"
    /\ handle' = ErrHandle(data)
    /\ allocated' = (handle' # None)
    /\ UNCHANGED <<gen, ptr, input, rest, data, hist, conf>>

\* asn1_parse_rule up to its loop: data = default, rest = input.
EnterLoop ==
    /\ pc = "call"
    /\ ptr = "buf"
    /\ IsValidUtf8(input)
    /\ ~IsEmpty(input)
    /\ data' = DefaultData
    /\ rest' = input
    /\ pc' = "loop"
    /\ UNCHANGED <<gen, ptr, input, hist, err, conf, handle, allocated>>

\* One iteration that sets a field.
LoopIteration ==
    /\ pc = "loop"
    /\ rest # << >>
    /\ LET t == ClauseTuple(rest)
           d == ApplyClause(data, t)
       IN  /\ d # None
           /\ data' = d[1]
           /\ rest' = t.new_rest
           /\ hist' = Append(hist, Bound(t))
    /\ UNCHANGED <<gen, ptr, input, pc, err, conf, handle, allocated>>

\* One iteration whose five Options are all None: Err(Verify), and the
\* caller returns null.
LoopVerifyError ==
    /\ pc = "loop"
    /\ rest # << >>
    /\ LET t == ClauseTuple(rest)
           d == ApplyClause(data, t)
       IN  /\ d = None
           /\ err' = Some(VerifyError(rest, t.new_rest))
    /\ pc' = "returned"
    /\ handle' = ErrHandle(data)
    /\ allocated' = (handle' # None)
    /\ UNCHANGED <<gen, ptr, input, rest, data, hist, conf>>

\* The loop ends, asn1_parse_rule returns Ok((rest, data)); the caller reads
\* the configuration, overrides max_frames and boxes the value.
ReturnBoxed ==
    /\ pc = "loop"
    /\ rest = << >>
    /\ \E c \in ConfValues :
          /\ conf' = Some(c)
          /\ handle' = Some(OverrideMaxFrames(data, c))
    /\ allocated' = TRUE
    /\ pc' = "returned"
    /\ UNCHANGED <<gen, ptr, input, rest, data, hist, err>>

\* rs_detect_asn1_free(handle): a null pointer is left alone, a box is dropped.
Free ==
    /\ pc = "returned"
    /\ pc' = "freed"
    /\ allocated' = IF handle = None THEN allocated ELSE FALSE
    /\ UNCHANGED <<gen, ptr, input, rest, data, hist, err, conf, handle>>

Next ==
    \/ ReturnNullInput
    \/ ReturnInvalidEncoding
    \/ RejectEmpty
    \/ EnterLoop
    \/ LoopIteration
    \/ LoopVerifyError
    \/ ReturnBoxed
    \/ Free

Spec == Init /\ [][Next]_vars

\* ------------------------------------------------------------------------
\* Vocabulary of the claims
\* ------------------------------------------------------------------------

Returned == pc = "returned"

\* asn1_parse_rule has left its loop and returns Ok((rest, data)).
ParseOk == pc = "loop" /\ rest = << >>
Succeeded == pc = "returned" /\ handle # None
ErrKind == IF err = None THEN "none" ELSE err[1].kind

\* How many of the five clause Options of one iteration are Some.
ClausesIn(t) ==
    Cardinality({f \in {"bitstring_overflow", "double_overflow", "oversize_length",
                        "absolute_offset", "relative_offset"} : t[f] # None})

\* The argument of the last clause with keyword f that the iterations of h
\* consumed, None when there is none.
RECURSIVE LastArg(_, _)
LastArg(h, f) ==
    IF h = << >> THEN None
    ELSE IF h[Len(h)][f] # None THEN h[Len(h)][f]
    ELSE LastArg(Take(h, Len(h) - 1), f)

Consumed(h, f) == \E k \in 1..Len(h) : h[k][f] # None

\* The digit string s, read as a decimal numeral, is greater than the
\* numeral max (which has no leading zero).
Exceeds(s, max) ==
    LET z == SpanLen(s, {"0"})
        d == Drop(s, z)
    IN  \/ Len(d) > Len(max)
        \/ /\ Len(d) = Len(max)
           /\ \E k \in 1..Len(d) :
                 /\ DigitVal(d[k]) > DigitVal(max[k])
                 /\ \A j \in 1..(k - 1) : d[j] = max[j]

\* No clause starts at i after its leading whitespace.
NoClauseAt(i) ==
    LET j == Drop(i, SpanLen(i, WhiteSpace))
    IN  /\ ~bitstring_overflow(j).ok
        /\ ~double_overflow(j).ok
        /\ ~oversize_length(j).ok
        /\ ~absolute_offset(j).ok
        /\ ~relative_offset(j).ok

\* ------------------------------------------------------------------------
\* C1
\* ------------------------------------------------------------------------

\* C1: every iteration of a parse that succeeds consumed exactly one clause,
\* the one whose field it set; no clause is consumed without being applied.
C1_OneClausePerIteration ==
    Succeeded => \A k \in 1..Len(hist) : ClausesIn(hist[k]) = 1

\* ------------------------------------------------------------------------
\* C2
\* ------------------------------------------------------------------------

\* C2: after a parse that succeeds, each numeric field is the argument of the
\* last clause with its keyword that was consumed (absent if none was), and
\* each flag is true exactly if its keyword was consumed.
C2_LastOccurrenceWins ==
    Succeeded =>
        /\ data.oversize_length = LastArg(hist, "oversize_length")
        /\ data.absolute_offset = LastArg(hist, "absolute_offset")
        /\ data.relative_offset = LastArg(hist, "relative_offset")
        /\ data.bitstring_overflow = Consumed(hist, "bitstring_overflow")
        /\ data.double_overflow = Consumed(hist, "double_overflow")

\* ------------------------------------------------------------------------
\* C3
\* ------------------------------------------------------------------------

\* The input is one relative_offset clause.
C3_Case ==
    /\ gen.fam = "number"
    /\ gen.items = << >>
    /\ gen.kw = "relative_offset"

\* The magnitude read as a u32, None when it does not fit.
C3_Magnitude == StrParseU32(DigitsText(gen.digits))

\* sign * magnitude lies in [-2^31, 2^31 - 1].
C3_InRange ==
    /\ C3_Magnitude # None
    /\ \/ C3_Magnitude[1][1] < 32768
       \/ gen.neg /\ C3_Magnitude[1] = <<32768, 0>>

C3_Value ==
    IF C3_Magnitude[1] = <<32768, 0>> THEN -2147483647 - 1
    ELSE (IF gen.neg THEN -1 ELSE 1)
            * (C3_Magnitude[1][1] * 65536 + C3_Magnitude[1][2])

\* C3: a relative_offset argument whose sign * magnitude (the magnitude read
\* as a u32) is in the i32 range is accepted and stored exactly, -2147483648
\* and -0 included; any other makes the parse fail.
C3_SignedRange ==
    (Returned /\ C3_Case) =>
        IF C3_InRange
        THEN handle # None /\ data.relative_offset = Some(C3_Value)
        ELSE handle = None

\* ------------------------------------------------------------------------
\* C4
\* ------------------------------------------------------------------------

\* The input ends with a numeric clause whose argument exceeds the width of
\* the integer it is parsed as: more than 4294967295 for oversize_length and
\* absolute_offset, outside [-2147483648, 2147483647] for relative_offset.
C4_Case ==
    /\ gen.fam = "number"
    /\ \/ /\ gen.kw \in {"oversize_length", "absolute_offset"}
          /\ ~gen.neg
          /\ Exceeds(DigitsText(gen.digits), DU32Max)
       \/ /\ gen.kw = "relative_offset"
          /\ Exceeds(DigitsText(gen.digits),
                     IF gen.neg THEN DI32MaxPlus1 ELSE DI32Max)

\* C4 as stated: the parse fails with an error kind of its own, neither
\* Verify (UnrecognizedOption) nor Eof (EmptyInput), and stores nothing.
C4_OverflowKind ==
    (Returned /\ C4_Case) =>
        /\ handle = None
        /\ ErrKind \notin {"none", "Verify", "Eof"}

\* What the separator after the flag clause leaves of the joint j: all of
\* j's leading whitespace goes, or else one comma.
C4_AfterSeparator(j) ==
    IF j # << >> /\ j[1] \in WhiteSpace THEN Drop(j, SpanLen(j, WhiteSpace))
    ELSE IF j # << >> /\ j[1] = "," THEN Drop(j, 1)
    ELSE j

\* The input as it is when the iteration that meets the overflowing clause
\* with nothing before it begins: the whole input when the clause comes
\* first, else the clause and the whitespace the separator left before it.
C4_Remainder ==
    IF gen.items = << >> THEN input
    ELSE C4_AfterSeparator(JointText(gen.joints[1])) \o NumberClause(gen)

\* The overflowing clause's field in the accumulator.
C4_Field ==
    CASE gen.kw = "oversize_length" -> data.oversize_length
      [] gen.kw = "absolute_offset" -> data.absolute_offset
      [] gen.kw = "relative_offset" -> data.relative_offset

\* C4 as amended: the clause does not match, so the parse fails with the
\* Verify error of an iteration at which no clause matches, never with Eof
\* or a kind of its own; the error's remainder is the input as it was when
\* that iteration began, leading whitespace included; null is returned and
\* no value, wrapped or truncated, is stored.
C4_OverflowIsVerify ==
    (Returned /\ C4_Case) =>
        /\ handle = None
        /\ ~allocated
        /\ C4_Field = None
        /\ err = Some([kind |-> "Verify", input |-> C4_Remainder])
        /\ IsSuffix(err[1].input, input)
        /\ Drop(err[1].input, SpanLen(err[1].input, WhiteSpace))
              = NumberClause(gen)
        /\ input = ClDouble \o Comma \o Sp \o KwOversizeLength \o Sp
                        \o DU32MaxPlus1
              => err[1].input = Sp \o KwOversizeLength \o Sp \o DU32MaxPlus1

\* An overflowing clause after a flag, a comma and a space: the remainder
\* keeps the space.
C4_Witness ==
    /\ Returned /\ C4_Case
    /\ input = ClDouble \o Comma \o Sp \o KwOversizeLength \o Sp \o DU32MaxPlus1
    /\ data.double_overflow
    /\ err = Some([kind |-> "Verify",
                   input |-> Sp \o KwOversizeLength \o Sp \o DU32MaxPlus1])

\* ------------------------------------------------------------------------
\* C5
\* ------------------------------------------------------------------------

\* The four failing inputs the claim names, each with its remainder.
C5_Examples ==
    { <<KwOversizeLength, KwOversizeLength>>,
      <<ClOversize1024 \o Comma \o Sp \o KwOther \o Sp \o D360,
        Sp \o KwOther \o Sp \o D360>>,
      <<ClOversize1024 \o Comma \o Comma, Comma>>,
      <<KwBitstringOverflow \o KwAbsoluteOffset, KwAbsoluteOffset>> }

C5_Step ==
    (pc = "loop" /\ rest # << >> /\ NoClauseAt(rest)) =>
        /\ pc' = "returned"
        /\ err' = Some([kind |-> "Verify", input |-> rest])
        /\ IsSuffix(rest, input)
        /\ handle' = None
        /\ \A e \in C5_Examples : input = e[1] => rest = e[2]

\* C5: an iteration at which none of the five clauses matches ends the parse
\* with a Verify error whose remainder is the input as it was when the
\* iteration began, leading whitespace included: a suffix of the input.
C5_VerifyRemainder == [][C5_Step]_vars

C5_Witness ==
    /\ Returned
    /\ input = ClOversize1024 \o Comma \o Sp \o KwOther \o Sp \o D360
    /\ err = Some([kind |-> "Verify", input |-> Sp \o KwOther \o Sp \o D360])
    /\ handle = None

\* ------------------------------------------------------------------------
\* C6
\* ------------------------------------------------------------------------

\* C6: rs_detect_asn1_parse returns null, with nothing allocated, for a null
\* pointer, for a buffer that is not UTF-8 and for any error of
\* asn1_parse_rule; it returns a box only when the whole input was consumed.
C6_NullOnFailure ==
    Returned =>
        /\ (ptr = "null" \/ ~IsValidUtf8(input) \/ err # None)
              => (handle = None /\ ~allocated)
        /\ handle # None
              => /\ ptr = "buf" /\ IsValidUtf8(input)
                 /\ err = None /\ rest = << >> /\ allocated
        /\ ptr = "buf" /\ IsValidUtf8(input)
              => (handle # None) = asn1_parse_rule(input).ok

\* A failure after a clause was applied to the accumulator.
C6_Witness ==
    /\ Returned
    /\ ErrKind = "Verify"
    /\ data.oversize_length = Some(U32(1024))
    /\ handle = None
    /\ ~allocated

\* ------------------------------------------------------------------------
\* C7
\* ------------------------------------------------------------------------

\* max_frames for each value the configuration may hold.
C7_Expected(c) ==
    CASE c = None -> 30
      [] c = Some(<<"1","0","0">>) -> 100
      [] c = Some(<<"6","5","5","3","5">>) -> 65535
      [] c = Some(<<"6","5","5","3","6">>) -> 30
      [] c = Some(<<"a","b","c">>) -> 30

\* C7: a parse that succeeded returns a value whatever the configuration
\* holds; its max_frames is the configured value when that is an unsigned
\* integer up to 65535 and 30 otherwise, and its five clause fields are the
\* parser's.
C7_MaxFramesOverride ==
    /\ (Returned /\ ptr = "buf" /\ IsValidUtf8(input) /\ err = None)
          => (handle # None /\ conf # None)
    /\ Succeeded =>
          /\ handle[1].max_frames = C7_Expected(conf[1])
          /\ [handle[1] EXCEPT !.max_frames = ASN1_DEFAULT_MAX_FRAMES] = data

C7_Witness ==
    /\ Succeeded
    /\ conf = Some(Some(<<"6","5","5","3","6">>))
    /\ handle[1].max_frames = 30
    /\ handle[1].absolute_offset = Some(U32(10))

\* ------------------------------------------------------------------------
\* C8
\* ------------------------------------------------------------------------

\* The clauses of the input, joined by single spaces.
C8_Canonical ==
    Join("", gen.items, [k \in 1..(Len(gen.items) - 1) |-> " "])

\* C8: well-formed clauses joined by any of the valid separators, with or
\* without leading whitespace, parse to what the same clauses joined by
\* single spaces parse to.
C8_SeparatorFlexibility ==
    gen.fam = "clauses" =>
        /\ err = None
        /\ Returned => handle # None
        /\ ParseOk =>
              LET r == asn1_parse_rule(C8_Canonical)
              IN  r.ok /\ r.data = data

C8_Witness ==
    /\ ParseOk
    /\ gen.fam = "clauses"
    /\ gen.lead = "\n\t "
    /\ gen.items = AllClauses
    /\ gen.joints = <<", ", "\n\t", ",", " ">>
    /\ data.double_overflow /\ data.relative_offset = Some(-7)

\* ------------------------------------------------------------------------
\* C9
\* ------------------------------------------------------------------------

C9_Permutations(n) ==
    {p \in [1..n -> 1..n] : \A i, j \in 1..n : p[i] = p[j] => i = j}

C9_DistinctKeywords ==
    \A i, j \in 1..Len(gen.items) : gen.items[i] = gen.items[j] => i = j

C9_Permuted(p) ==
    Join(gen.lead, [k \in 1..Len(gen.items) |-> gen.items[p[k]]], gen.joints)

\* C9: clauses with pairwise distinct keywords parse to the same value in
\* every order; oversize_length 1024 and absolute_offset 10, in either order,
\* give exactly those two fields.
C9_OrderIndependence ==
    (gen.fam = "clauses" /\ C9_DistinctKeywords) =>
        /\ err = None
        /\ Returned => handle # None
        /\ ParseOk =>
              /\ \A p \in C9_Permutations(Len(gen.items)) :
                    LET r == asn1_parse_rule(C9_Permuted(p))
                    IN  r.ok /\ r.data = data
              /\ gen.items \in {<<"oversize_length 1024", "absolute_offset 10">>,
                                <<"absolute_offset 10", "oversize_length 1024">>}
                    => data = [DefaultData EXCEPT
                                  !.oversize_length = Some(U32(1024)),
                                  !.absolute_offset = Some(U32(10))]

C9_Witness ==
    /\ ParseOk
    /\ gen.fam = "clauses"
    /\ gen.items = <<"absolute_offset 10", "oversize_length 1024">>
    /\ data.oversize_length = Some(U32(1024))
    /\ data.absolute_offset = Some(U32(10))

\* ------------------------------------------------------------------------
\* C10
\* ------------------------------------------------------------------------

C10_OnlySeparators == \A k \in 1..Len(input) : input[k] \in WhiteSpace \cup {","}

C10_FieldSet ==
    \/ data.bitstring_overflow
    \/ data.double_overflow
    \/ data.oversize_length # None
    \/ data.absolute_offset # None
    \/ data.relative_offset # None

\* C10: the empty input is rejected with Eof before any iteration; an input
\* of whitespace and commas only fails; a parse that succeeds has set at
\* least one of the five clause fields.
C10_AtLeastOneClause ==
    /\ (Returned /\ ptr = "buf" /\ input = << >>)
          => /\ err = Some([kind |-> "Eof", input |-> << >>])
             /\ hist = << >>
             /\ handle = None
    /\ (Returned /\ ptr = "buf" /\ C10_OnlySeparators) => handle = None
    /\ Succeeded => (C10_FieldSet /\ Len(hist) >= 1)

C10_Witness ==
    /\ Returned
    /\ ptr = "buf"
    /\ input = << >>
    /\ ErrKind = "Eof"
    /\ handle = None

====
